---- MODULE Spec2Model ----
(***************************************************************************)
(* Model of video/make_youtube_short.py: create_youtube_short.             *)
(*                                                                         *)
(* Units.  Pixels are integers.  Time is counted in half seconds, so that  *)
(* the slide length of 1.5 s and a segment of whole seconds played at      *)
(* speed 1 or 2 are integers.  A focal ratio is a pair <<n, d>> standing   *)
(* for the float n/d; the model draws d = 4 (and 2 for the default         *)
(* centre), ratios a float holds exactly, so that int(), "/" and "*" of    *)
(* the code are the exact truncations computed here.  For all sizes used   *)
(* here int(a * (b / float(c))) equals the exact floor of a*b/c.           *)
(***************************************************************************)
EXTENDS Integers, Sequences, FiniteSets

VARIABLES
    src_size,             \* original_clip.size of the video at input_video_path
    clips_of_interest,    \* sequence of <<start_sec, end_sec>>
    speed_multiplier,
    target_aspect_ratio,  \* <<ar_w, ar_h>>
    max_duration_sec,
    focal_points,         \* [none |-> BOOLEAN, list |-> sequence of <<fx, fy>>]
    output_resolution,    \* <<out_w, out_h>>
    image_path,           \* "none" (None), "missing" (no such file), "exists"
    img_size,             \* size of the oriented image
    pc,                   \* position in create_youtube_short
    original_clip,        \* "unloaded", "open", "closed"
    idx,                  \* index of the segment loop (1-based)
    final_clips,          \* sequence of [kind, size, duration, seg]
    current_duration,     \* half seconds
    crop,                 \* the crop box computed last, with its frame
    new_size,             \* <<new_w, new_h>> of the scaled image
    i,                    \* index of the slide loop (0-based)
    offsets,              \* <<x_crop, y_crop>> of the slides made so far
    final_video,          \* [made, size, duration, resized]
    clips_closed,         \* the finally block closed final_clips and final_video
    outcome               \* how the call ended

vars == <<src_size, clips_of_interest, speed_multiplier, target_aspect_ratio,
          max_duration_sec, focal_points, output_resolution, image_path,
          img_size, pc, original_clip, idx, final_clips, current_duration,
          crop, new_size, i, offsets, final_video, clips_closed, outcome>>

inputs == <<src_size, clips_of_interest, speed_multiplier, target_aspect_ratio,
            max_duration_sec, focal_points, output_resolution, image_path,
            img_size>>

----------------------------------------------------------------------------
(* Bounds of the input space                                               *)

MaxDim == 4
MaxRatio == 3
MaxImg == 4
MaxSegs == 2
SrcDurationSec == 2
MaxDurationSec == 3
FocalSlack == 1

Dims == 1..MaxDim
Ratios == 1..MaxRatio
ImgDims == 1..MaxImg
Speeds == {1, 2}
\* focal ratios n/4 from below 0 to above 1
FocalRatios == {<<n, 4>> : n \in (0 - FocalSlack)..(4 + FocalSlack)}
Segments == {<<s, e>> : s \in 0..SrcDurationSec, e \in 0..SrcDurationSec} \cap
            {p \in (0..SrcDurationSec) \X (0..SrcDurationSec) : p[1] < p[2]}

----------------------------------------------------------------------------
(* Arithmetic of the code                                                  *)

\* int(n / d) for d > 0: truncation toward zero
TruncDiv(n, d) == IF n >= 0 THEN n \div d ELSE 0 - ((0 - n) \div d)

Max(a, b) == IF a >= b THEN a ELSE b

Min(a, b) == IF a <= b THEN a ELSE b

\* seconds to half seconds
Ticks(sec) == 2 * sec

num_parts == 4

\* duration_per_part = 1.5 s, in half seconds
duration_per_part == 3

DefaultFocalPoint == <<<<1, 2>>, <<1, 2>>>>

\* Mutant: the aspect ratio is applied the wrong way round in the height-first guess.
TargetSizeSwapped(W, H, ar_w, ar_h) ==
    LET w0 == TruncDiv(H * ar_h, ar_w)
    IN  IF w0 > W THEN <<W, TruncDiv(W * ar_h, ar_w)>> ELSE <<w0, H>>

\* Mutant: the width test is >= instead of >.
TargetSizeGe(W, H, ar_w, ar_h) ==
    LET w0 == TruncDiv(H * ar_w, ar_h)
    IN  IF w0 >= W THEN <<W, TruncDiv(W * ar_h, ar_w)>> ELSE <<w0, H>>

\* calculated_target_width, calculated_target_height
TargetSize(W, H, ar_w, ar_h) ==
    LET w0 == TruncDiv(H * ar_w, ar_h)
    IN  IF w0 > W THEN <<W, TruncDiv(W * ar_h, ar_w)>> ELSE <<w0, H>>

\* Mutant: the adjustment at the right/bottom edge is missing.
CropOriginNoEdge(F, f, t) ==
    Max(0, Max(0, TruncDiv(2 * F * f[1] - t * f[2], 2 * f[2])))

\* x1 (or y1) on one axis: frame length F, focal ratio f = <<n, d>>, box length t
CropOrigin(F, f, t) ==
    LET a == TruncDiv(2 * F * f[1] - t * f[2], 2 * f[2])   \* int(F*f - t/2)
        b == Max(0, a)
        c == IF b + t > F THEN F - t ELSE b
    IN  Max(0, c)

CropBox(stage, W, H, ar, fp) ==
    LET t == TargetSize(W, H, ar[1], ar[2])
    IN  [stage |-> stage, fw |-> W, fh |-> H, focal_point |-> fp,
         x1 |-> CropOrigin(W, fp[1], t[1]), y1 |-> CropOrigin(H, fp[2], t[2]),
         width |-> t[1], height |-> t[2]]

NoCrop == [stage |-> "none", fw |-> 0, fh |-> 0, focal_point |-> DefaultFocalPoint,
           x1 |-> 0, y1 |-> 0, width |-> 0, height |-> 0]

\* length of pic[a:b] along an axis of n pixels
SliceLen(n, a, b) ==
    LET lo == IF a < 0 THEN Max(0, a + n) ELSE Min(a, n)
        hi == IF b < 0 THEN Max(0, b + n) ELSE Min(b, n)
    IN  Max(0, hi - lo)

\* length of a clip along one axis after clip.crop(x1=a, width=t)
CroppedLen(n, a, t) == IF t = 0 THEN SliceLen(n, a, n) ELSE SliceLen(n, a, a + t)

RECURSIVE SumDurations(_)
SumDurations(s) == IF s = <<>> THEN 0 ELSE Head(s).duration + SumDurations(Tail(s))

\* duration of subclip(start, end).fx(speedx, speed), in half seconds
SpedUpDuration(seg, speed) == Ticks(seg[2] - seg[1]) \div speed

FocalGiven(k) == ~focal_points.none /\ focal_points.list # <<>> /\ k <= Len(focal_points.list)

NoVideo == [made |-> FALSE, size |-> <<0, 0>>, duration |-> 0, resized |-> FALSE]

----------------------------------------------------------------------------
(* Calls of create_youtube_short                                           *)

Start ==
    /\ pc = "start"
    /\ original_clip = "unloaded"
    /\ idx = 1
    /\ final_clips = <<>>
    /\ current_duration = 0
    /\ crop = NoCrop
    /\ new_size = <<0, 0>>
    /\ i = 0
    /\ offsets = <<>>
    /\ final_video = NoVideo
    /\ clips_closed = FALSE
    /\ outcome = "running"

FocalChoices ==
    {[none |-> TRUE, list |-> <<>>], [none |-> FALSE, list |-> <<>>]} \cup
    {[none |-> FALSE, list |-> <<<<fx, fy>>>>] : fx \in FocalRatios, fy \in FocalRatios}

FewFocalChoices ==
    {[none |-> TRUE, list |-> <<>>], [none |-> FALSE, list |-> <<>>],
     [none |-> FALSE, list |-> <<<<<<1, 4>>, <<3, 4>>>>>>],
     [none |-> FALSE, list |-> <<DefaultFocalPoint>>]}

ClipLists == UNION {[1..n -> Segments] : n \in 0..MaxSegs}

\* every frame size, aspect ratio and first focal point, one segment
InitGeometry ==
    /\ src_size \in Dims \X Dims
    /\ output_resolution \in {src_size, <<src_size[2], src_size[1]>>}
    /\ target_aspect_ratio \in Ratios \X Ratios
    /\ focal_points \in FocalChoices
    /\ clips_of_interest = <<<<0, 1>>>>
    /\ speed_multiplier = 1
    /\ max_duration_sec = MaxDurationSec
    /\ image_path \in {"none", "missing"}
    /\ img_size = <<1, 1>>

\* every segment list, speed, maximum duration and image case
InitTimeline ==
    /\ src_size = <<4, 3>>
    /\ output_resolution = <<1, 2>>
    /\ target_aspect_ratio = <<1, 2>>
    /\ focal_points \in FewFocalChoices
    /\ clips_of_interest \in ClipLists
    /\ speed_multiplier \in Speeds
    /\ max_duration_sec \in 1..MaxDurationSec
    /\ image_path \in {"none", "missing", "exists"}
    /\ img_size = <<1, 2>>

\* every image size and output resolution
InitImage ==
    /\ src_size = <<4, 3>>
    /\ output_resolution \in Dims \X Dims
    /\ target_aspect_ratio \in {output_resolution, <<1, 1>>}
    /\ focal_points \in FewFocalChoices
    /\ clips_of_interest \in {<<>>, <<<<0, 1>>>>}
    /\ speed_multiplier = 1
    /\ max_duration_sec = MaxDurationSec
    /\ image_path = "exists"
    /\ img_size \in ImgDims \X ImgDims

Init == Start /\ (InitGeometry \/ InitTimeline \/ InitImage)

----------------------------------------------------------------------------
(* Steps of create_youtube_short                                           *)

LoadOk ==
    /\ pc = "start"
    /\ original_clip' = "open"
    /\ pc' = "segments"
    /\ UNCHANGED <<inputs, idx, final_clips, current_duration, crop, new_size, i,
                   offsets, final_video, clips_closed, outcome>>

LoadFail ==
    /\ pc = "start"
    /\ outcome' = "load_failed"
    /\ pc' = "done"
    /\ UNCHANGED <<inputs, original_clip, idx, final_clips, current_duration, crop,
                   new_size, i, offsets, final_video, clips_closed>>

SegBreak ==
    /\ pc = "segments"
    /\ idx <= Len(clips_of_interest)
    /\ current_duration >= Ticks(max_duration_sec)
    /\ pc' = "image"
    /\ UNCHANGED <<inputs, original_clip, idx, final_clips, current_duration, crop,
                   new_size, i, offsets, final_video, clips_closed, outcome>>

SegProcess ==
    /\ pc = "segments"
    /\ idx <= Len(clips_of_interest)
    /\ current_duration < Ticks(max_duration_sec)
    /\ LET d == SpedUpDuration(clips_of_interest[idx], speed_multiplier)
           focal_point == IF FocalGiven(idx) THEN focal_points.list[idx]
                          ELSE DefaultFocalPoint
           box == CropBox("segment", src_size[1], src_size[2],
                          target_aspect_ratio, focal_point)
           over == current_duration + d > Ticks(max_duration_sec)
           trimmed == IF over THEN Ticks(max_duration_sec) - current_duration ELSE d
       IN  /\ crop' = box
           /\ IF over /\ trimmed <= 0
              THEN UNCHANGED <<final_clips, current_duration>>
              ELSE /\ final_clips' = Append(final_clips,
                          [kind |-> "segment", size |-> output_resolution,
                           duration |-> trimmed, seg |-> idx])
                   /\ current_duration' = current_duration + trimmed
    /\ idx' = idx + 1
    /\ UNCHANGED <<inputs, original_clip, pc, new_size, i, offsets, final_video,
                   clips_closed, outcome>>

SegDone ==
    /\ pc = "segments"
    /\ idx > Len(clips_of_interest)
    /\ pc' = "image"
    /\ UNCHANGED <<inputs, original_clip, idx, final_clips, current_duration, crop,
                   new_size, i, offsets, final_video, clips_closed, outcome>>

ImageScale ==
    /\ pc = "image"
    /\ image_path = "exists"
    /\ new_size' = IF img_size[1] > img_size[2]
                   THEN <<TruncDiv(img_size[1] * output_resolution[2], img_size[2]),
                          output_resolution[2]>>
                   ELSE <<output_resolution[1],
                          TruncDiv(img_size[2] * output_resolution[1], img_size[1])>>
    /\ i' = 0
    /\ pc' = "slides"
    /\ UNCHANGED <<inputs, original_clip, idx, final_clips, current_duration, crop,
                   offsets, final_video, clips_closed, outcome>>

PanOffset(k, max_offset) ==
    IF num_parts = 1 THEN max_offset \div 2
    ELSE TruncDiv(k * max_offset, num_parts - 1)

SlideStep ==
    /\ pc = "slides"
    /\ i < num_parts
    /\ LET landscape == img_size[1] > img_size[2]
           x_crop == IF landscape
                     THEN PanOffset(i, new_size[1] - output_resolution[1]) ELSE 0
           y_crop == IF landscape
                     THEN 0 ELSE PanOffset(i, new_size[2] - output_resolution[2])
       IN  /\ offsets' = Append(offsets, <<x_crop, y_crop>>)
           /\ final_clips' = Append(final_clips,
                  [kind |-> "slide",
                   size |-> <<CroppedLen(new_size[1], x_crop, output_resolution[1]),
                              CroppedLen(new_size[2], y_crop, output_resolution[2])>>,
                   duration |-> duration_per_part, seg |-> 0])
    /\ i' = i + 1
    /\ UNCHANGED <<inputs, original_clip, pc, idx, current_duration, crop, new_size,
                   final_video, clips_closed, outcome>>

SlidesDone ==
    /\ pc = "slides"
    /\ i >= num_parts
    /\ pc' = "check"
    /\ UNCHANGED <<inputs, original_clip, idx, final_clips, current_duration, crop,
                   new_size, i, offsets, final_video, clips_closed, outcome>>

ImageMissing ==
    /\ pc = "image"
    /\ image_path = "missing"
    /\ pc' = "check"
    /\ UNCHANGED <<inputs, original_clip, idx, final_clips, current_duration, crop,
                   new_size, i, offsets, final_video, clips_closed, outcome>>

ImageNone ==
    /\ pc = "image"
    /\ image_path = "none"
    /\ pc' = "check"
    /\ UNCHANGED <<inputs, original_clip, idx, final_clips, current_duration, crop,
                   new_size, i, offsets, final_video, clips_closed, outcome>>

NoClips ==
    /\ pc = "check"
    /\ final_clips = <<>>
    /\ outcome' = "no_clips"
    /\ pc' = "done"
    /\ UNCHANGED <<inputs, original_clip, idx, final_clips, current_duration, crop,
                   new_size, i, offsets, final_video, clips_closed>>

Concatenate ==
    /\ pc = "check"
    /\ final_clips # <<>>
    /\ final_video' = [made |-> TRUE, size |-> final_clips[1].size,
                       duration |-> SumDurations(final_clips), resized |-> FALSE]
    /\ pc' = "final_crop"
    /\ UNCHANGED <<inputs, original_clip, idx, final_clips, current_duration, crop,
                   new_size, i, offsets, clips_closed, outcome>>

FinalCropRaise ==
    /\ pc = "final_crop"
    /\ focal_points.none \/ focal_points.list = <<>>
    /\ outcome' = "raised"
    /\ pc' = "done"
    /\ UNCHANGED <<inputs, original_clip, idx, final_clips, current_duration, crop,
                   new_size, i, offsets, final_video, clips_closed>>

FinalCrop ==
    /\ pc = "final_crop"
    /\ ~focal_points.none
    /\ focal_points.list # <<>>
    /\ LET box == CropBox("final", final_video.size[1], final_video.size[2],
                          target_aspect_ratio, focal_points.list[1])
           w == CroppedLen(final_video.size[1], box.x1, box.width)
           h == CroppedLen(final_video.size[2], box.y1, box.height)
           resize == h # output_resolution[2] \/ w # output_resolution[1]
       IN  /\ crop' = box
           /\ final_video' = [final_video EXCEPT
                                 !.size = IF resize THEN output_resolution ELSE <<w, h>>,
                                 !.resized = resize]
    /\ pc' = "write"
    /\ UNCHANGED <<inputs, original_clip, idx, final_clips, current_duration,
                   new_size, i, offsets, clips_closed, outcome>>

WriteOk ==
    /\ pc = "write"
    /\ outcome' = "written"
    /\ original_clip' = "closed"
    /\ clips_closed' = TRUE
    /\ pc' = "done"
    /\ UNCHANGED <<inputs, idx, final_clips, current_duration, crop, new_size, i,
                   offsets, final_video>>

WriteFail ==
    /\ pc = "write"
    /\ outcome' = "write_failed"
    /\ original_clip' = "closed"
    /\ clips_closed' = TRUE
    /\ pc' = "done"
    /\ UNCHANGED <<inputs, idx, final_clips, current_duration, crop, new_size, i,
                   offsets, final_video>>

Next ==
    \/ LoadOk
    \/ LoadFail
    \/ SegBreak
    \/ SegProcess
    \/ SegDone
    \/ ImageScale
    \/ SlideStep
    \/ SlidesDone
    \/ ImageMissing
    \/ ImageNone
    \/ NoClips
    \/ Concatenate
    \/ FinalCropRaise
    \/ FinalCrop
    \/ WriteOk
    \/ WriteFail

Spec == Init /\ [][Next]_vars

----------------------------------------------------------------------------
(* Properties                                                              *)

IsCentre(fp) == 2 * fp[1][1] = fp[1][2] /\ 2 * fp[2][1] = fp[2][2]

RECURSIVE TotalTransformed(_)
TotalTransformed(segs) ==
    IF segs = <<>> THEN 0
    ELSE SpedUpDuration(Head(segs), speed_multiplier) + TotalTransformed(Tail(segs))

NoFocalSupplied == focal_points.none \/ focal_points.list = <<>>

Wrote == outcome \in {"written", "write_failed"}

\* C1: every crop box computed, per segment or in the final assembly, for any
\* frame, aspect ratio and focal point (also outside [0,1]), lies inside its
\* frame: 0 <= x1, 0 <= y1, x1 + width <= W, y1 + height <= H.
C1_CropBoxInsideFrame ==
    crop.stage # "none" =>
        /\ 0 <= crop.x1
        /\ 0 <= crop.y1
        /\ crop.x1 + crop.width <= crop.fw
        /\ crop.y1 + crop.height <= crop.fh

\* a final crop whose focal point lies right of the frame and whose box was
\* pushed back to the right edge
C1_Witness ==
    /\ crop.stage = "final"
    /\ crop.focal_point[1][1] > crop.focal_point[1][2]
    /\ crop.x1 > 0
    /\ crop.x1 + crop.width = crop.fw

\* C5: the size of every crop box is that of the largest aspect-ratio box in the
\* frame: height = H and width = floor(H*ar_w/ar_h) when that width fits,
\* otherwise width = W and height = floor(W*ar_h/ar_w); the derived dimension is
\* the exact ratio truncated by less than one pixel; the focal point plays no part.
C5_CropSizeLargestFit ==
    crop.stage # "none" =>
        LET ar_w == target_aspect_ratio[1]
            ar_h == target_aspect_ratio[2]
        IN  IF (crop.fh * ar_w) \div ar_h <= crop.fw
            THEN /\ crop.height = crop.fh
                 /\ crop.width * ar_h <= crop.height * ar_w
                 /\ crop.height * ar_w < (crop.width + 1) * ar_h
            ELSE /\ crop.width = crop.fw
                 /\ crop.height * ar_w <= crop.width * ar_h
                 /\ crop.width * ar_h < (crop.height + 1) * ar_w

\* a per-segment crop off centre whose box spans the frame width, not its height
C5_Witness ==
    /\ crop.stage = "segment"
    /\ ~IsCentre(crop.focal_point)
    /\ crop.width = crop.fw
    /\ 0 < crop.height
    /\ crop.height < crop.fh

\* C8: with focal point (0.5, 0.5) and a frame that has the target aspect ratio
\* exactly, the crop box is the whole frame.
C8_CentreCropIsFullFrame ==
    (/\ crop.stage # "none"
     /\ IsCentre(crop.focal_point)
     /\ crop.fw * target_aspect_ratio[2] = crop.fh * target_aspect_ratio[1])
    => /\ crop.x1 = 0
       /\ crop.y1 = 0
       /\ crop.width = crop.fw
       /\ crop.height = crop.fh

\* a centred per-segment crop of a non-square frame of the target aspect ratio
C8_Witness ==
    /\ crop.stage = "segment"
    /\ IsCentre(crop.focal_point)
    /\ crop.fw * target_aspect_ratio[2] = crop.fh * target_aspect_ratio[1]
    /\ crop.fw > crop.fh
    /\ crop.fh > 1
    /\ crop.width = crop.fw

\* C2 (as claimed): when the segments' transformed durations add up to more than
\* max_duration_sec, the assembled video lasts exactly max_duration_sec and no
\* segment follows the truncated one.
C2_AssembledDurationIsMax ==
    (final_video.made /\ TotalTransformed(clips_of_interest) > Ticks(max_duration_sec))
    => /\ final_video.duration = Ticks(max_duration_sec)
       /\ \A k \in 1..Len(final_clips) :
              (/\ final_clips[k].kind = "segment"
               /\ final_clips[k].duration <
                      SpedUpDuration(clips_of_interest[final_clips[k].seg], speed_multiplier))
              => \A m \in (k + 1)..Len(final_clips) : final_clips[m].kind # "segment"

\* C3 (as claimed): a call that loaded the source clip has closed it when it
\* returns, whether the write succeeded, the write failed, or no clip was processed.
C3_SourceClosedOnReturn ==
    (pc = "done" /\ outcome \in {"written", "write_failed", "no_clips"})
    => original_clip = "closed"

\* C4 (as claimed): when no focal point is supplied, every crop, per segment and
\* final, uses the centre (0.5, 0.5), and the call reaches the write step.
C4_DefaultCentreReachesWrite ==
    /\ (crop.stage # "none" /\ NoFocalSupplied) => IsCentre(crop.focal_point)
    /\ (pc = "done" /\ NoFocalSupplied /\ final_video.made)
       => (Wrote /\ crop.stage = "final")

\* C6 (as claimed): when the image is given but missing, no slide is appended and
\* the call goes on to concatenation and write.
C6_MissingImageStillWrites ==
    (image_path = "missing" /\ final_clips # <<>>)
    => /\ \A k \in 1..Len(final_clips) : final_clips[k].kind = "segment"
       /\ pc = "done" => Wrote

\* C7 (as claimed): for a landscape image the four slides have horizontal offsets
\* 0, max_offset/3, 2*max_offset/3, max_offset (truncated), vertical offset 0,
\* and the offsets do not decrease.
C7_LandscapePanOffsets ==
    (img_size[1] > img_size[2] /\ Len(offsets) = num_parts)
    => LET max_offset == new_size[1] - output_resolution[1]
       IN  /\ offsets[1][1] = 0
           /\ offsets[2][1] = TruncDiv(max_offset, 3)
           /\ offsets[3][1] = TruncDiv(2 * max_offset, 3)
           /\ offsets[4][1] = max_offset
           /\ \A k \in 1..num_parts : offsets[k][2] = 0
           /\ \A k \in 1..(num_parts - 1) : offsets[k][1] <= offsets[k + 1][1]

\* C9 (as claimed): the scaled image covers the output resolution, so every
\* slide's crop window lies inside the scaled image.
C9_ScaledImageCoversOutput ==
    pc = "slides"
    => /\ new_size[1] >= output_resolution[1]
       /\ new_size[2] >= output_resolution[2]
       /\ \A k \in 1..Len(offsets) :
              /\ 0 <= offsets[k][1]
              /\ 0 <= offsets[k][2]
              /\ offsets[k][1] + output_resolution[1] <= new_size[1]
              /\ offsets[k][2] + output_resolution[2] <= new_size[2]

\* C10 (as claimed): when output_resolution has the target aspect ratio exactly,
\* the final crop is the identity whatever the first focal point is: the box is
\* (0, 0, out_w, out_h) and the final video is not resized.
C10_FinalCropIsIdentity ==
    (/\ crop.stage = "final"
     /\ output_resolution[1] * target_aspect_ratio[2] =
            output_resolution[2] * target_aspect_ratio[1])
    => /\ crop.x1 = 0
       /\ crop.y1 = 0
       /\ crop.width = output_resolution[1]
       /\ crop.height = output_resolution[2]
       /\ ~final_video.resized

====
